---------------------------- MODULE Spec2Model ----------------------------
(***************************************************************************)
(* A model of the Duxbury (dbtw.exe) NVDA app module, appModules/dbtw.py:  *)
(* the five gesture scripts, the direct status-text helper, the bounded    *)
(* UI-tree walk, the candidate collector and the Page/Line/Col parser.     *)
(*                                                                         *)
(* Texts are TLA+ strings, read character by character with SubSeq; the    *)
(* regular expressions of the source are pattern records interpreted by    *)
(* MatchAt.  UI nodes are the naturals of a tree record; NoNode is a       *)
(* falsy child (None).                                                     *)
(***************************************************************************)
EXTENDS Integers, Sequences, FiniteSets, TLC

\* None, and the outcome of a call or an attribute read that raises: two
\* values that are no text (no text of the model holds "<").
NoneVal == "<None>"
Raises == "<raises>"

\* ------------------------------------------------------------------------
\* Characters and the character classes of Python's re (ASCII part).
\* ------------------------------------------------------------------------
Char(s, i) == IF i >= 1 /\ i <= Len(s) THEN SubSeq(s, i, i) ELSE ""

UpperChars == "ABCDEFGHIJKLMNOPQRSTUVWXYZ"
LowerChars == "abcdefghijklmnopqrstuvwxyz"
DigitSet == {"0", "1", "2", "3", "4", "5", "6", "7", "8", "9"}
UpperSet == {Char(UpperChars, i) : i \in 1..26}
LowerSet == {Char(LowerChars, i) : i \in 1..26}
\* \s
SpaceSet == {" ", "\t", "\n"}
\* [:#.=]
SepSet == {":", "#", ".", "="}

IsDigit(c) == c \in DigitSet
IsSpace(c) == c \in SpaceSet
\* \w
IsWord(c) == c \in DigitSet \/ c \in UpperSet \/ c \in LowerSet \/ c = "_"

\* re.IGNORECASE: both sides are compared in lower case.
Lower(c) ==
    IF c \in UpperSet
    THEN Char(LowerChars, CHOOSE i \in 1..26 : Char(UpperChars, i) = c)
    ELSE c

RECURSIVE LowerStr(_)
LowerStr(s) ==
    IF s = "" THEN "" ELSE Lower(Char(s, 1)) \o LowerStr(SubSeq(s, 2, Len(s)))

\* The first position >= i of s that holds no whitespace (resp. no digit).
RECURSIVE SkipSpace(_, _)
SkipSpace(s, i) == IF IsSpace(Char(s, i)) THEN SkipSpace(s, i + 1) ELSE i

RECURSIVE SkipDigits(_, _)
SkipDigits(s, i) == IF IsDigit(Char(s, i)) THEN SkipDigits(s, i + 1) ELSE i

\* \b between positions i-1 and i of s.
Boundary(s, i) == IsWord(Char(s, i - 1)) # IsWord(Char(s, i))

\* re.sub(r"\s+", " ", t): every whitespace run becomes one space.
RECURSIVE CollapseSpace(_)
CollapseSpace(t) ==
    IF t = "" THEN ""
    ELSE IF IsSpace(Char(t, 1))
         THEN " " \o CollapseSpace(SubSeq(t, SkipSpace(t, 1), Len(t)))
         ELSE Char(t, 1) \o CollapseSpace(SubSeq(t, 2, Len(t)))

\* str.strip()
RECURSIVE Strip(_)
Strip(t) ==
    IF t = "" THEN ""
    ELSE IF IsSpace(Char(t, 1)) THEN Strip(SubSeq(t, 2, Len(t)))
    ELSE IF IsSpace(Char(t, Len(t))) THEN Strip(SubSeq(t, 1, Len(t) - 1))
    ELSE t

\* re.sub(r"\s+", " ", t).strip()
Normalize(t) == Strip(CollapseSpace(t))

\* ------------------------------------------------------------------------
\* The pattern tables.  Every pattern of the source has the shape
\*     \b label [\b] gap (\d+) tail
\* lab:  the label alternatives, in the order of the alternation;
\* wb:   whether \b follows the label;
\* gap:  "sep"    \s*[:#.=]?\s*      "eq"   \s*=\s*      "none"  nothing
\*       "dotsep" \.?\s*[:#.=]?\s*   "ws"   \s+
\* tail: "b"  \b      "of"  \s+of\b
\* ------------------------------------------------------------------------
Pat(lab, wb, gap, tail) == [lab |-> lab, wb |-> wb, gap |-> gap, tail |-> tail]

_PAGE_PATTERNS ==
    << Pat(<<"Page", "Pg", "P", "Stranica", "Str">>, TRUE, "sep", "b"),
       Pat(<<"Page">>, FALSE, "ws", "of"),
       Pat(<<"P">>, FALSE, "eq", "b"),
       Pat(<<"P">>, FALSE, "none", "b"),
       Pat(<<"Str">>, FALSE, "eq", "b"),
       Pat(<<"Str">>, FALSE, "none", "b") >>

_LINE_PATTERNS ==
    << Pat(<<"Line", "Ln", "Row", "Linija", "Redak", "Retka">>, TRUE, "sep", "b"),
       Pat(<<"Line">>, FALSE, "ws", "of"),
       Pat(<<"L", "R">>, TRUE, "sep", "b"),
       Pat(<<"L">>, FALSE, "eq", "b"),
       Pat(<<"L">>, FALSE, "none", "b"),
       Pat(<<"Ln">>, FALSE, "dotsep", "b"),
       Pat(<<"Red", "Redak">>, TRUE, "sep", "b") >>

_COL_PATTERNS ==
    << Pat(<<"Column", "Col", "Cell", "Kolona", "Stupac", "Kol", "Stu">>,
           TRUE, "sep", "b"),
       Pat(<<"C">>, FALSE, "sep", "b"),
       Pat(<<"C">>, FALSE, "eq", "b"),
       Pat(<<"C">>, FALSE, "none", "b") >>

\* A match is the start of the match and the range [from, to] of the digits
\* captured.
NoMatch == [start |-> 0, from |-> 0, to |-> 0]

\* The end of the gap that starts at j, or 0 when the gap does not match.
GapEnd(gap, s, j) ==
    LET j0 == IF gap = "dotsep" /\ Char(s, j) = "." THEN j + 1 ELSE j
        j1 == SkipSpace(s, j0)
    IN  CASE gap = "none" -> j
          [] gap = "ws" -> IF j1 > j THEN j1 ELSE 0
          [] gap = "eq" -> IF Char(s, j1) = "=" THEN SkipSpace(s, j1 + 1) ELSE 0
          [] OTHER -> SkipSpace(s, IF Char(s, j1) \in SepSet THEN j1 + 1 ELSE j1)

\* The tail from position e on, the first position behind the digits.
TailAt(tail, s, e) ==
    IF tail = "b" THEN Boundary(s, e)
    ELSE LET k == SkipSpace(s, e)
         IN  /\ k > e
             /\ Len(s) >= k + 1
             /\ LowerStr(SubSeq(s, k, k + 1)) = "of"
             /\ Boundary(s, k + 2)

\* (\d+) and the tail from position d on, in the match that starts at i.
DigitsAt(tail, s, i, d) ==
    IF d # 0 /\ SkipDigits(s, d) > d /\ TailAt(tail, s, SkipDigits(s, d))
    THEN [start |-> i, from |-> d, to |-> SkipDigits(s, d) - 1]
    ELSE NoMatch

\* The pattern with the label alternative l at start i.
TryLabel(p, s, i, l) ==
    IF /\ i + Len(l) - 1 <= Len(s)
       /\ LowerStr(SubSeq(s, i, i + Len(l) - 1)) = LowerStr(l)
       /\ (p.wb => Boundary(s, i + Len(l)))
    THEN DigitsAt(p.tail, s, i, GapEnd(p.gap, s, i + Len(l)))
    ELSE NoMatch

\* The match m, or else the match rest.
OrElse(m, rest) == IF m # NoMatch THEN m ELSE rest

\* The first of F(a), F(a + 1), ... F(n) that is a match.
RECURSIVE FirstOf(_, _, _)
FirstOf(F(_), a, n) ==
    IF a > n THEN NoMatch ELSE OrElse(F(a), FirstOf(F, a + 1, n))

\* re.match of the pattern at start position i: the label alternatives are
\* tried in their order.
MatchAt(p, s, i) ==
    LET Alternative(a) == TryLabel(p, s, i, p.lab[a])
    IN  IF Boundary(s, i) THEN FirstOf(Alternative, 1, Len(p.lab)) ELSE NoMatch

\* The match of ms with the leftmost start.
Leftmost(ms) ==
    IF ms = {} THEN NoMatch ELSE CHOOSE m \in ms : \A k \in ms : m.start <= k.start

\* re.search(pat, text, re.IGNORECASE)
Search(p, s) == Leftmost({MatchAt(p, s, i) : i \in 1..Len(s)} \ {NoMatch})

\* The match of the first pattern of the list that matches anywhere.
FirstMatch(s, patterns) ==
    LET Pattern(a) == Search(patterns[a], s)
    IN  FirstOf(Pattern, 1, Len(patterns))

\* The digits m captured in text, or None.
Captured(text, m) == IF m = NoMatch THEN NoneVal ELSE SubSeq(text, m.from, m.to)

\* _match_first_number: the last group of the match that is all digits.
_match_first_number(text, patterns) == Captured(text, FirstMatch(text, patterns))

\* re.findall(r"\d+", s) as ranges: the maximal digit runs from position i on.
RECURSIVE DigitRuns(_, _)
DigitRuns(s, i) ==
    IF i > Len(s) THEN <<>>
    ELSE IF IsDigit(Char(s, i))
         THEN LET e == SkipDigits(s, i)
              IN  <<[from |-> i, to |-> e - 1]>> \o DigitRuns(s, e)
         ELSE DigitRuns(s, i + 1)

\* ------------------------------------------------------------------------
\* UI nodes are numbers.  A tree record t gives the children list of some
\* nodes (t.kids), the readable attributes of some nodes (t.attrs) and the
\* nodes whose children cannot be read (t.broken); a node it does not
\* mention has no children and no attribute.  An attribute whose read
\* raises has the value Raises.
\* ------------------------------------------------------------------------
\* A falsy node (None)
NoNode == -1
\* api.getForegroundObject() raises
NoForeground == -2
AttrNames == <<"name", "value", "windowText", "description">>

UiNode(role, wc, name, value, windowText, description) ==
    [role |-> role, windowClassName |-> wc, name |-> name, value |-> value,
     windowText |-> windowText, description |-> description]

BlankNode == UiNode(NoneVal, NoneVal, NoneVal, NoneVal, NoneVal, NoneVal)

\* getattr(n, "children", []) or []
Children(t, n) == IF n \in DOMAIN t.kids THEN t.kids[n] ELSE <<>>
\* getattr(n, attr, None) for the other attributes
Attrs(t, n) == IF n \in DOMAIN t.attrs THEN t.attrs[n] ELSE BlankNode

\* for x in s[lo..hi]: acc = Op(acc, x).  The loop is split in halves, the
\* first evaluated (left = left) before the second starts from its result,
\* so that the depth of the evaluation is logarithmic in the loop's length.
RECURSIVE ForEach(_, _, _, _, _)
ForEach(Op(_, _), acc, s, lo, hi) ==
    IF lo > hi THEN acc
    ELSE IF lo = hi THEN Op(acc, s[lo])
    ELSE LET mid == (lo + hi) \div 2
             left == ForEach(Op, acc, s, lo, mid)
         IN  IF left = left THEN ForEach(Op, left, s, mid + 1, hi) ELSE acc

\* _walk(n, depth) with the generator's state st: st.out the nodes yielded
\* so far, each with its depth below the root (the depth is not part of what
\* the code yields), st.count the nonlocal counter.
RECURSIVE _walk(_, _, _, _, _, _)
_walk(t, n, depth, st, max_depth, max_nodes) ==
    IF n = NoNode \/ depth > max_depth \/ st.count >= max_nodes THEN st
    ELSE LET kids == IF n \in t.broken THEN <<>> ELSE Children(t, n)
             Visit(a, k) ==
                 _walk(t, k, depth + 1,
                       [out |-> Append(a.out, [node |-> k, depth |-> depth + 1]),
                        count |-> a.count + 1],
                       max_depth, max_nodes)
         IN  ForEach(Visit, st, kids, 1, Len(kids))

_iter_children(t, node, max_depth, max_nodes) ==
    _walk(t, node, 0, [out |-> <<>>, count |-> 0], max_depth, max_nodes).out

\* ------------------------------------------------------------------------
\* The candidate collector.
\* ------------------------------------------------------------------------
MaxDepth == 6
MaxNodes == 800
StatusBarClasses == {"msctls_statusbar32", "statusbarwindow32", "tstatusbar"}

\* _add(txt, prio) on the list c
_add(c, txt, prio) ==
    IF txt = NoneVal \/ txt = "" THEN c
    ELSE LET s == Normalize(txt)
         IN  IF s = "" THEN c ELSE Append(c, <<prio, s>>)

\* for attr in ("name", "value", "windowText", "description"), from number i
\* on: a read that raises leaves the loop and the node, with what was added.
RECURSIVE AddAttrs(_, _, _, _)
AddAttrs(c, a, prio, i) ==
    IF i > Len(AttrNames) THEN c
    ELSE IF a[AttrNames[i]] = Raises THEN c
    ELSE AddAttrs(_add(c, a[AttrNames[i]], prio), a, prio, i + 1)

\* The body of the loop over the walk, with its try/except/continue.
NodeTexts(c, a) ==
    IF a.role = Raises THEN c
    ELSE IF a.role = "STATUSBAR" THEN AddAttrs(c, a, 0, 1)
    ELSE IF a.windowClassName = Raises THEN c
    ELSE LET wc == IF a.windowClassName = NoneVal THEN "" ELSE a.windowClassName
             basePrio == IF LowerStr(wc) \in StatusBarClasses THEN 1 ELSE 2
         IN  AddAttrs(c, a, basePrio, 1)

\* Mutant: the sort is not stable, a pair goes before the pairs of its own
\* priority.
InsertBeforeEqual(sorted, x) ==
    LET k == Cardinality({i \in 1..Len(sorted) : sorted[i][1] < x[1]})
    IN  SubSeq(sorted, 1, k) \o <<x>> \o SubSeq(sorted, k + 1, Len(sorted))

\* sorted(candidates, key=lambda x: x[0]): a stable sort by priority, as
\* the insertion of each pair behind the pairs of no higher priority number.
InsertByPrio(sorted, x) ==
    LET k == Cardinality({i \in 1..Len(sorted) : sorted[i][1] <= x[1]})
    IN  SubSeq(sorted, 1, k) \o <<x>> \o SubSeq(sorted, k + 1, Len(sorted))

SortedByPrio(c) == ForEach(InsertByPrio, <<>>, c, 1, Len(c))

\* The body of the loop that keeps the first occurrence of each text.
KeepUnseen(acc, x) ==
    IF x[2] \in acc.seen THEN acc
    ELSE [unique |-> Append(acc.unique, x), seen |-> acc.seen \cup {x[2]}]

Unique(c) == ForEach(KeepUnseen, [unique |-> <<>>, seen |-> {}], c, 1, Len(c)).unique

SortedUnique(c) == Unique(SortedByPrio(c))

\* _collect_candidate_texts, given what api.getForegroundObject() does (it
\* returns a node of tree t, returns None, or raises).  yielded and
\* candidates are the walk and the list before the sort, kept for the record.
_collect_candidate_texts(foreground, t) ==
    LET fg == IF foreground = NoForeground THEN NoNode ELSE foreground
        yielded == IF fg = NoNode THEN <<>>
                   ELSE _iter_children(t, fg, MaxDepth, MaxNodes)
        Body(c, y) == NodeTexts(c, Attrs(t, y.node))
        candidates == ForEach(Body, <<>>, yielded, 1, Len(yielded))
    IN  [yielded |-> yielded,
         candidates |-> candidates,
         unique |-> IF fg = NoNode THEN <<>> ELSE SortedUnique(candidates)]

\* ------------------------------------------------------------------------
\* The parser.  out is the dict: a field that is not a key is None.
\* ------------------------------------------------------------------------
Fields == <<"page", "line", "col">>
EmptyOut == [page |-> NoneVal, line |-> NoneVal, col |-> NoneVal]
Complete(out) == out.page # NoneVal /\ out.line # NoneVal /\ out.col # NoneVal

\* if f not in out: n = _match_first_number(t, patterns); if n: out[f] = n
TryField(cur, text, patterns) ==
    IF cur # NoneVal THEN cur ELSE _match_first_number(text, patterns)

TryFields(out, text) ==
    [page |-> TryField(out.page, text, _PAGE_PATTERNS),
     line |-> TryField(out.line, text, _LINE_PATTERNS),
     col |-> TryField(out.col, text, _COL_PATTERNS)]

\* 1) the loop over the individual texts, from number i on: o is out after
\* text number i.
RECURSIVE Individual(_, _, _)
NextText(texts, i, o) == IF Complete(o) THEN o ELSE Individual(texts, i + 1, o)
Individual(texts, i, out) ==
    IF i > Len(texts) THEN out
    ELSE NextText(texts, i, TryFields(out, texts[i][2]))

\* " | ".join(t for _, t in texts)
RECURSIVE Join(_, _)
Join(parts, sep) ==
    IF parts = <<>> THEN ""
    ELSE IF Len(parts) = 1 THEN parts[1]
    ELSE parts[1] \o sep \o Join(Tail(parts), sep)

Big(texts) == Join([i \in 1..Len(texts) |-> texts[i][2]], " | ")

\* re.findall(r"\d+", s)
FindNumbers(s) ==
    LET r == DigitRuns(s, 1) IN [k \in 1..Len(r) |-> SubSeq(s, r[k].from, r[k].to)]

\* Mutant: out[f] = v, which overwrites.
Overwrite(cur, v) == v

\* out.setdefault(f, v), for the value cur that out has for f
SetDefault(cur, v) == IF cur # NoneVal THEN cur ELSE v

\* Mutant: the positional heuristic leaves out the numbers that out has
\* already.
PositionalUnused(out, nums) ==
    LET Unused(n) == n \notin {out.page, out.line, out.col}
        rest == SelectSeq(nums, Unused)
    IN  IF Len(rest) >= 3
        THEN [page |-> SetDefault(out.page, rest[1]),
              line |-> SetDefault(out.line, rest[2]),
              col |-> SetDefault(out.col, rest[3])]
        ELSE out

\* 3) the positional heuristic
Positional(out, nums) ==
    IF Len(nums) >= 3
    THEN [page |-> SetDefault(out.page, nums[1]),
          line |-> SetDefault(out.line, nums[2]),
          col |-> SetDefault(out.col, nums[3])]
    ELSE out

\* 2) and 3): out1 is out after the loop, big the concatenated text.
Concatenated(out1, big) ==
    IF Complete(out1) THEN out1
    ELSE Positional(TryFields(out1, big), FindNumbers(big))

_parse_from_any(texts) == Concatenated(Individual(texts, 1, EmptyOut), Big(texts))

\* ------------------------------------------------------------------------
\* The direct status text.
\* ------------------------------------------------------------------------
Retries == 3

\* Mutant: the call of api.getStatusBarText() is not in a try block.
RECURSIVE AttemptUncaught(_, _, _)
AttemptUncaught(replies, k, failed) ==
    IF k > Retries THEN [text |-> NoneVal, queries |-> Retries, failed |-> failed]
    ELSE LET t == replies[k]
         IN  IF t = Raises THEN [text |-> Raises, queries |-> k, failed |-> failed]
             ELSE IF t # NoneVal /\ t # "" /\ Strip(t) # ""
                  THEN [text |-> Normalize(t), queries |-> k, failed |-> failed]
                  ELSE AttemptUncaught(replies, k + 1, failed)

\* Mutant: a reply without text ends the loop.
RECURSIVE AttemptOnce(_, _, _)
AttemptOnce(replies, k, failed) ==
    IF k > Retries THEN [text |-> NoneVal, queries |-> Retries, failed |-> failed]
    ELSE LET t == replies[k]
         IN  IF t = Raises THEN AttemptOnce(replies, k + 1, failed + 1)
             ELSE IF t # NoneVal /\ t # "" /\ Strip(t) # ""
                  THEN [text |-> Normalize(t), queries |-> k, failed |-> failed]
                  ELSE [text |-> NoneVal, queries |-> k, failed |-> failed]

\* _get_status_text_api, given what the successive calls of
\* api.getStatusBarText() do (replies[k]: a text, None, or Raises): the
\* text returned, the number of calls made and the number of failures logged.
RECURSIVE Attempt(_, _, _)
Attempt(replies, k, failed) ==
    IF k > Retries THEN [text |-> NoneVal, queries |-> Retries, failed |-> failed]
    ELSE LET t == replies[k]
         IN  IF t = Raises THEN Attempt(replies, k + 1, failed + 1)
             ELSE IF t # NoneVal /\ t # "" /\ Strip(t) # ""
                  THEN [text |-> Normalize(t), queries |-> k, failed |-> failed]
                  ELSE Attempt(replies, k + 1, failed)

_get_status_text_api(replies) == Attempt(replies, 1, 0)

\* ------------------------------------------------------------------------
\* The state: the collaborators (what the host and the application answer
\* during one gesture), what the script did with them, and its locals when
\* it returned.
\* ------------------------------------------------------------------------
VARIABLES
    delegate,     \* globalCommands...script_reportStatusLine: "ok" or "fails"
    statusBar,    \* the replies of api.getStatusBarText(), call by call
    foreground,   \* api.getForegroundObject(): a node, NoNode or NoForeground
    tree,         \* the UI tree
    pc,           \* "idle" before the gesture, "done" after the script
    script,       \* the script that ran
    delegated,    \* the built-in command reported the status line
    queries,      \* calls of api.getStatusBarText()
    fgQueries,    \* calls of api.getForegroundObject()
    text,         \* what _get_status_text_api returned
    yielded,      \* the nodes _iter_children yielded
    candidates,   \* the collector's list before the sort
    cand,         \* what _collect_candidate_texts returned
    parsed,       \* what _parse_from_any returned
    spoken,       \* the messages given to ui.message
    logged,       \* the entries given to log.debug
    escaped       \* an exception left the script

env == <<delegate, statusBar, foreground, tree>>
vars == <<delegate, statusBar, foreground, tree, pc, script, delegated, queries,
          fgQueries, text, yielded, candidates, cand, parsed, spoken, logged,
          escaped>>

LogEntry(msg, i, s) == [msg |-> msg, i |-> i, s |-> s]
StatusFailed == LogEntry("dbtw: api.getStatusBarText failed", 0, "")
ForegroundFailed == LogEntry("dbtw: getForegroundObject failed", 0, "")
DelegateFailed == LogEntry("dbtw Alt+-: built-in reportStatusLine failed", 0, "")

\* What a script that has not called the helper, the collector or the parser
\* leaves of them.
NoApi == [text |-> NoneVal, queries |-> 0, failed |-> 0]
NoScan == [yielded |-> <<>>, candidates |-> <<>>, unique |-> <<>>]

\* The state after a script: api and scan are the results of the calls of
\* _get_status_text_api and _collect_candidate_texts (NoApi, NoScan when not
\* called), out the parser's result, msgs what was spoken, log what was
\* logged besides the helpers' own entries.
Return(name, api, scan, scanned, out, msgs, log) ==
    /\ pc' = "done"
    /\ script' = name
    /\ queries' = api.queries
    /\ text' = api.text
    /\ fgQueries' = IF scanned THEN 1 ELSE 0
    /\ yielded' = scan.yielded
    /\ candidates' = scan.candidates
    /\ cand' = scan.unique
    /\ parsed' = out
    /\ spoken' = msgs
    /\ logged' = log.before
                   \o [k \in 1..api.failed |-> StatusFailed]
                   \o (IF scanned /\ foreground = NoForeground
                       THEN <<ForegroundFailed>> ELSE <<>>)
                   \o log.after
    /\ escaped' = FALSE
    /\ UNCHANGED env

\* An exception of a callee that the script does not catch.
Escape(name, api) ==
    /\ pc' = "done"
    /\ script' = name
    /\ queries' = api.queries
    /\ escaped' = TRUE
    /\ UNCHANGED <<env, fgQueries, text, yielded, candidates, cand, parsed,
                   spoken, logged>>

NoLog == [before |-> <<>>, after |-> <<>>]

\* The parts "Page P", "Line L", "Column C" of the fields that are keys.
Parts(out) ==
    (IF out.page # NoneVal THEN <<"Page " \o out.page>> ELSE <<>>)
    \o (IF out.line # NoneVal THEN <<"Line " \o out.line>> ELSE <<>>)
    \o (IF out.col # NoneVal THEN <<"Column " \o out.col>> ELSE <<>>)

\* ------------------------------------------------------------------------
\* The scripts.
\* ------------------------------------------------------------------------
\* The script behind the built-in command that failed.
StatusFallback ==
    LET api == _get_status_text_api(statusBar)
        scan == _collect_candidate_texts(foreground, tree)
        out == _parse_from_any(scan.unique)
        log == [before |-> <<DelegateFailed>>, after |-> <<>>]
    IN  IF api.text = Raises
        THEN Escape("reportDuxburyStatus", api)
        ELSE IF api.text # NoneVal
        THEN Return("reportDuxburyStatus", api, NoScan, FALSE, EmptyOut,
                    <<api.text>>, log)
        ELSE IF out # EmptyOut /\ Parts(out) # <<>>
        THEN Return("reportDuxburyStatus", api, scan, TRUE, out,
                    <<Join(Parts(out), ", ")>>, log)
        ELSE Return("reportDuxburyStatus", api, scan, TRUE, out,
                    <<"Status bar not available.">>, log)

\* Mutant: the return behind the built-in command is missing.
script_reportDuxburyStatus_FallsThrough ==
    /\ pc = "idle"
    /\ delegated' = (delegate = "ok")
    /\ StatusFallback

script_reportDuxburyStatus ==
    /\ pc = "idle"
    /\ IF delegate = "ok"
       THEN /\ delegated' = TRUE
            /\ Return("reportDuxburyStatus", NoApi, NoScan, FALSE, EmptyOut,
                      <<>>, NoLog)
       ELSE /\ delegated' = FALSE
            /\ StatusFallback

\* Mutant: the second of three or more numbers, not of exactly 3.
LineOfTextAtLeast3(t) ==
    LET n == _match_first_number(t, _LINE_PATTERNS)
        nums == FindNumbers(t)
    IN  IF n # NoneVal THEN n
        ELSE IF Len(nums) >= 3 THEN nums[2] ELSE NoneVal

\* The number the line script takes from the direct status text.
LineOfText(t) ==
    LET n == _match_first_number(t, _LINE_PATTERNS)
        nums == FindNumbers(t)
    IN  IF n # NoneVal THEN n
        ELSE IF Len(nums) = 3 THEN nums[2] ELSE NoneVal

script_reportDuxburyLine ==
    /\ pc = "idle"
    /\ delegated' = FALSE
    /\ LET api == _get_status_text_api(statusBar)
           n == IF api.text # NoneVal THEN LineOfText(api.text) ELSE NoneVal
           scan == _collect_candidate_texts(foreground, tree)
           out == _parse_from_any(scan.unique)
       IN  IF api.text = Raises THEN Escape("reportDuxburyLine", api)
           ELSE IF n # NoneVal
           THEN Return("reportDuxburyLine", api, NoScan, FALSE, EmptyOut,
                       <<"Line " \o n>>, NoLog)
           ELSE IF out.line # NoneVal
           THEN Return("reportDuxburyLine", api, scan, TRUE, out,
                       <<"Line " \o out.line>>, NoLog)
           ELSE Return("reportDuxburyLine", api, scan, TRUE, out,
                       <<"Line number not available.">>, NoLog)

\* The number the page script takes from the direct status text.
PageOfText(t) ==
    LET n == _match_first_number(t, _PAGE_PATTERNS)
        nums == FindNumbers(t)
    IN  IF n # NoneVal THEN n
        ELSE IF Len(nums) >= 1 THEN nums[1] ELSE NoneVal

script_reportDuxburyPage ==
    /\ pc = "idle"
    /\ delegated' = FALSE
    /\ LET api == _get_status_text_api(statusBar)
           n == IF api.text # NoneVal THEN PageOfText(api.text) ELSE NoneVal
           scan == _collect_candidate_texts(foreground, tree)
           out == _parse_from_any(scan.unique)
       IN  IF api.text = Raises THEN Escape("reportDuxburyPage", api)
           ELSE IF n # NoneVal
           THEN Return("reportDuxburyPage", api, NoScan, FALSE, EmptyOut,
                       <<"Page " \o n>>, NoLog)
           ELSE IF out.page # NoneVal
           THEN Return("reportDuxburyPage", api, scan, TRUE, out,
                       <<"Page " \o out.page>>, NoLog)
           ELSE Return("reportDuxburyPage", api, scan, TRUE, out,
                       <<"Page number not available.">>, NoLog)

MaxLogged == 30

\* The log of debugListCandidates: cand[:30], numbered from 1.
CandidateLog(c) ==
    <<LogEntry("dbtw debug: ----- candidate texts begin -----", 0, "")>>
    \o [i \in 1..(IF Len(c) < MaxLogged THEN Len(c) ELSE MaxLogged) |->
           LogEntry("dbtw cand", i, c[i][2])]
    \o <<LogEntry("dbtw debug: ----- candidate texts end -----", 0, "")>>

debugListCandidates ==
    /\ pc = "idle"
    /\ delegated' = FALSE
    /\ LET scan == _collect_candidate_texts(foreground, tree)
           out == _parse_from_any(scan.unique)
           log == [before |-> <<>>, after |-> CandidateLog(scan.unique)]
       IN  IF out # EmptyOut
           THEN Return("debugListCandidates", NoApi, scan, TRUE, out,
                       <<Join(Parts(out), ", ")>>, log)
           ELSE Return("debugListCandidates", NoApi, scan, TRUE, out,
                       <<"No status candidates found.">>, log)

debugScanSummary ==
    /\ pc = "idle"
    /\ delegated' = FALSE
    /\ LET scan == _collect_candidate_texts(foreground, tree)
           out == _parse_from_any(scan.unique)
       IN  IF out # EmptyOut
           THEN Return("debugScanSummary", NoApi, scan, TRUE, out,
                       <<Join(Parts(out), ", ")>>, NoLog)
           ELSE Return("debugScanSummary", NoApi, scan, TRUE, out,
                       <<"UI scan did not find status information.">>, NoLog)

\* ------------------------------------------------------------------------
\* The environments of a gesture.
\* ------------------------------------------------------------------------
MaxKids == 2
MaxChain == 8

\* The nodes of the trees that carry text.
TextNodes ==
    { BlankNode,
      UiNode("PANE", "Edit", "5", "12", "3", NoneVal),
      UiNode("PANE", NoneVal, "Line 12", "5", "3", NoneVal),
      UiNode("STATUSBAR", NoneVal, "Page 5  Line 12   Col 3", NoneVal, NoneVal,
             NoneVal),
      UiNode("STATUSBAR", NoneVal, "Str 7", NoneVal, NoneVal, NoneVal),
      UiNode("PANE", "Edit", "Redak 9", NoneVal, NoneVal, NoneVal),
      UiNode("PANE", "MSCTLS_StatusBar32", "5", "Line 12", NoneVal, NoneVal),
      UiNode("STATUSBAR", "Edit", "5", NoneVal, NoneVal, " Line\t12 "),
      UiNode("PANE", "Edit", " \t", "", NoneVal, "Ready"),
      UiNode("PANE", "TStatusBar", NoneVal, NoneVal, "7 8", "P5"),
      UiNode(Raises, "Edit", "Page 3", NoneVal, NoneVal, NoneVal),
      UiNode("PANE", Raises, "Ln12", NoneVal, NoneVal, NoneVal),
      UiNode("PANE", "Edit", Raises, "12", NoneVal, NoneVal),
      UiNode("PANE", "Edit", "C:4", Raises, "Ln12", NoneVal),
      UiNode("STATUSBAR", NoneVal, "Page 3", "L=8", Raises, "9"),
      UiNode("PANE", "Edit", "7", "8", "Col 2", Raises) }

\* A foreground window (node 0) whose children 1..k are the nodes ns.
Flat(ns) ==
    [kids |-> (0 :> [i \in 1..Len(ns) |-> i]),
     attrs |-> [i \in 1..Len(ns) |-> ns[i]],
     broken |-> {}]

\* The nodes whose texts meet those of other nodes.
CoreNodes ==
    { UiNode("PANE", "Edit", "5", "12", "3", NoneVal),
      UiNode("PANE", NoneVal, "Line 12", "5", "3", NoneVal),
      UiNode("STATUSBAR", NoneVal, "Str 7", NoneVal, NoneVal, NoneVal),
      UiNode("PANE", "MSCTLS_StatusBar32", "5", "Line 12", NoneVal, NoneVal),
      UiNode("STATUSBAR", "Edit", "5", NoneVal, NoneVal, " Line\t12 "),
      UiNode("PANE", "TStatusBar", NoneVal, NoneVal, "7 8", "P5"),
      UiNode("PANE", "Edit", "C:4", Raises, "Ln12", NoneVal) }

\* A window without children, with one child, with up to MaxKids children.
TextTrees ==
    {Flat(ns) : ns \in UNION {[1..k -> TextNodes] : k \in 0..1}}
    \cup {Flat(ns) : ns \in UNION {[1..k -> CoreNodes] : k \in 2..MaxKids}}

\* The shapes that meet the limits of the walk.
Digit(i) == Char("0123456789", i + 1)

\* 0 - 1 - ... - d, node i named "Line i"
Chain(d) ==
    [kids |-> [i \in 0..(d - 1) |-> <<i + 1>>],
     attrs |-> [i \in 1..d |->
                  UiNode("PANE", "Edit", "Line " \o Digit(i), NoneVal, NoneVal,
                         NoneVal)],
     broken |-> {}]

\* a window with n children without text
Wide(n) == [kids |-> (0 :> [i \in 1..n |-> i]), attrs |-> <<>>, broken |-> {}]

\* a window whose children list is ks, every node of ks having the same list
Loop(ks) ==
    [kids |-> [i \in ({0} \cup {ks[j] : j \in 1..Len(ks)}) \ {NoNode} |-> ks],
     attrs |-> <<>>,
     broken |-> {}]

\* a tree t in which the children of the nodes bs cannot be read
Broken(t, bs) == [t EXCEPT !.broken = bs]

ShapeTrees ==
    {Chain(d) : d \in 0..MaxChain}
    \cup {Wide(n) : n \in {MaxNodes - 1, MaxNodes, MaxNodes + 1}}
    \cup {Loop(ks) : ks \in {<<0>>, <<1>>, <<1, 0>>, <<NoNode, 1>>, <<0, 0, 0>>}}
    \cup {Broken(Chain(MaxChain), {b}) : b \in 0..2}
    \cup {Broken(Flat(<<BlankNode, BlankNode>>), {1})}

\* What a call of api.getStatusBarText() can do: fail to give a text, or
\* give one.
Failures == {Raises, NoneVal, "", " \t"}
Texts == {"Page: 2, Line: 100, Column: 1", "5 12 3", "1 2 3 4", "Page 4", "Ready"}

\* The replies to the calls of one gesture: failures up to the first text if
\* there is one, and "Ready" to the calls behind it.
StatusBars ==
    [1..Retries -> Failures]
    \cup UNION {{[i \in 1..Retries |->
                    IF i <= k THEN fs[i] ELSE IF i = k + 1 THEN t ELSE "Ready"] :
                 fs \in [1..k -> Failures], t \in Texts} : k \in 0..(Retries - 1)}

\* The direct status text never comes.
NoStatusBar == <<Raises, NoneVal, " \t">>

Env(d, sb, fg, t) == [delegate |-> d, statusBar |-> sb, foreground |-> fg, tree |-> t]

\* The UI scan decides: every tree, behind a status bar that gives nothing.
ScanEnvs ==
    {Env("fails", NoStatusBar, 0, t) : t \in TextTrees \cup ShapeTrees}
    \cup {Env("fails", NoStatusBar, fg, Chain(1)) : fg \in {NoNode, NoForeground}}

\* The direct status text decides: every sequence of replies, with and
\* without the built-in command, before a window that gives a line or nothing.
ApiEnvs ==
    {Env(d, sb, fg, Chain(1)) :
        d \in {"ok", "fails"}, sb \in StatusBars, fg \in {0, NoNode}}

Envs == ScanEnvs \cup ApiEnvs

Init ==
    /\ \E e \in Envs :
          /\ delegate = e.delegate
          /\ statusBar = e.statusBar
          /\ foreground = e.foreground
          /\ tree = e.tree
    /\ pc = "idle"
    /\ script = ""
    /\ delegated = FALSE
    /\ queries = 0
    /\ fgQueries = 0
    /\ text = NoneVal
    /\ yielded = <<>>
    /\ candidates = <<>>
    /\ cand = <<>>
    /\ parsed = EmptyOut
    /\ spoken = <<>>
    /\ logged = <<>>
    /\ escaped = FALSE

Next ==
    \/ script_reportDuxburyStatus
    \/ script_reportDuxburyLine
    \/ script_reportDuxburyPage
    \/ debugListCandidates
    \/ debugScanSummary

Spec == Init /\ [][Next]_vars

\* ------------------------------------------------------------------------
\* The properties.
\* ------------------------------------------------------------------------
\* The script ran the UI scan.
Scanned == pc = "done" /\ fgQueries = 1

\* C1: the traversal _iter_children(root, max_depth=6, max_nodes=800) yields
\* at most 800 nodes in total, whatever the tree, a single node with more
\* than 800 children included.
C1_AtMostMaxNodesYielded == pc = "done" => Len(yielded) <= MaxNodes

\* C8: with the foreground window at depth 0 and its children at depth 1,
\* the traversal with maximum depth 6 never yields a node at a depth greater
\* than 6, cyclic trees included (every scan of the model returns, the
\* cyclic trees among them).
C8_NoNodeBelowMaxDepth ==
    pc = "done" => \A i \in 1..Len(yielded) : yielded[i].depth <= MaxDepth

\* The scan fails to read an attribute of the node whose attributes are a.
ReadFails(a) ==
    \/ a.role = Raises
    \/ a.role # "STATUSBAR" /\ a.windowClassName = Raises
    \/ \E i \in 1..Len(AttrNames) : a[AttrNames[i]] = Raises

\* The tree t with no text in the nodes whose read fails.
WithoutFailing(t) ==
    [t EXCEPT !.attrs = [n \in DOMAIN t.attrs |->
                            IF ReadFails(t.attrs[n]) THEN BlankNode ELSE t.attrs[n]]]

\* C6: a visited node one of whose attributes fails to be read contributes
\* no candidates at all, the scan goes on, and the candidates of the other
\* nodes are what they would be if the failing node had no text.
C6_FailingNodeContributesNothing ==
    Scanned /\ foreground = 0 =>
        candidates = _collect_candidate_texts(0, WithoutFailing(tree)).candidates

\* The indices at which the collector's list has the text s.
Collected(s) == {k \in 1..Len(candidates) : candidates[k][2] = s}

\* The first index at which the collector's list has the pair x.
Discovery(x) == CHOOSE k \in 1..Len(candidates) :
    candidates[k] = x /\ \A j \in 1..(k - 1) : candidates[j] # x

\* C2: the sequence the Candidate Collector returns has each distinct text
\* collected exactly once, with the lowest priority number at which the text
\* was collected, in ascending order of priority, and in discovery order
\* among equal priorities.
C2_UniqueLowestPriorityStableOrder ==
    Scanned =>
        /\ {cand[i][2] : i \in 1..Len(cand)} = {candidates[k][2] : k \in 1..Len(candidates)}
        /\ \A i, j \in 1..Len(cand) : i < j =>
              /\ cand[i][2] # cand[j][2]
              /\ cand[i][1] <= cand[j][1]
              /\ cand[i][1] = cand[j][1] => Discovery(cand[i]) < Discovery(cand[j])
        /\ \A i \in 1..Len(cand) :
              /\ Collected(cand[i][2]) # {}
              /\ \A k \in Collected(cand[i][2]) : cand[i][1] <= candidates[k][1]
              /\ \E k \in Collected(cand[i][2]) : cand[i][1] = candidates[k][1]

\* C2's case: a text collected twice, the second time with a stronger
\* priority, and another text of the surviving pair's priority.
C2_Witness ==
    /\ Scanned
    /\ \E k, m \in 1..Len(candidates) :
          /\ k < m
          /\ candidates[k][2] = candidates[m][2]
          /\ candidates[k][1] > candidates[m][1]
    /\ \E i, j \in 1..Len(cand) : i < j /\ cand[i][1] = cand[j][1]
    /\ Len(cand) < Len(candidates)

FieldSet == {"page", "line", "col"}

\* What stages 1 and 2 of the parser resolve of the texts.
Labelled(texts) == TryFields(Individual(texts, 1, EmptyOut), Big(texts))

\* The digit runs of the concatenated candidate text.
RunsOf(texts) == FindNumbers(Big(texts))

\* C3: positional fallback gives a field a value only when stages 1 and 2
\* resolved fewer than three fields and the concatenated text has at least 3
\* digit runs; a field that stage 1 or 2 resolved keeps that value; with
\* fewer than 3 digit runs no unresolved field is filled.
C3_PositionalOnlyFillsUnresolved ==
    Scanned =>
        LET resolved == Labelled(cand)
            runs == RunsOf(cand)
        IN  \A f \in FieldSet :
                /\ resolved[f] # NoneVal => parsed[f] = resolved[f]
                /\ resolved[f] = NoneVal /\ parsed[f] # NoneVal =>
                      /\ ~Complete(resolved)
                      /\ Len(runs) >= 3
                /\ Len(runs) < 3 => parsed[f] = resolved[f]

\* C3's case: a field resolved by its label whose positional number is
\* another one, beside a field that positional fallback filled.
C3_Witness ==
    /\ Scanned
    /\ LET resolved == Labelled(cand)
           runs == RunsOf(cand)
       IN  /\ Len(runs) >= 3
           /\ resolved.line # NoneVal
           /\ resolved.line # runs[2]
           /\ parsed.line = resolved.line
           /\ resolved.col = NoneVal
           /\ parsed.col = runs[3]

\* The first reply within the retry budget that is a text with more than
\* white space, or 0.
IsText(r) == r # Raises /\ r # NoneVal /\ Normalize(r) # ""
FirstText(replies) ==
    IF \E k \in 1..Retries : IsText(replies[k])
    THEN CHOOSE k \in 1..Retries :
            IsText(replies[k]) /\ \A j \in 1..(k - 1) : ~IsText(replies[j])
    ELSE 0

\* C4: the full status report asks the built-in command, then the direct
\* status text, then the UI scan, each only when the ones before failed.
\* When the built-in command succeeds, neither the direct accessor nor the
\* foreground window is queried and nothing is spoken; when it fails and the
\* direct accessor gives text, that normalized text is the one message and
\* the foreground window is not queried; only when both fail is the scan
\* run, and it ends in the composed message or "Status bar not available.".
C4_StatusStagesInOrder ==
    pc = "done" /\ script = "reportDuxburyStatus" =>
        LET first == FirstText(statusBar)
        IN
        IF delegate = "ok"
        THEN delegated /\ queries = 0 /\ fgQueries = 0 /\ spoken = <<>>
        ELSE IF first # 0
        THEN /\ ~delegated
             /\ queries = first
             /\ spoken = <<Normalize(statusBar[first])>>
             /\ fgQueries = 0
        ELSE /\ ~delegated
             /\ queries = Retries
             /\ fgQueries = 1
             /\ spoken = IF parsed = EmptyOut
                         THEN <<"Status bar not available.">>
                         ELSE <<Join(Parts(parsed), ", ")>>
             /\ logged[1] = DelegateFailed

\* C4's case: the built-in command succeeded, before a status bar and a
\* window that would have given a text.
C4_Witness ==
    /\ pc = "done"
    /\ script = "reportDuxburyStatus"
    /\ delegated
    /\ FirstText(statusBar) # 0
    /\ foreground = 0
    /\ spoken = <<>>

\* The line number of the direct status text t: by a line pattern, or the
\* 2nd digit run when t has exactly 3.
DirectLine(t) ==
    LET n == _match_first_number(t, _LINE_PATTERNS)
        runs == FindNumbers(t)
    IN  IF n # NoneVal THEN n ELSE IF Len(runs) = 3 THEN runs[2] ELSE NoneVal

\* C5: when the direct status text gives a line number n, the line-only
\* report speaks exactly "Line n" and does not query the foreground window;
\* the collector and the parser run only when the direct text is absent or
\* gives no line.
C5_LineFromDirectTextNeverScans ==
    pc = "done" /\ script = "reportDuxburyLine" =>
        LET n == IF text # NoneVal THEN DirectLine(text) ELSE NoneVal
        IN  IF n # NoneVal
            THEN spoken = <<"Line " \o n>> /\ fgQueries = 0 /\ cand = <<>>
            ELSE fgQueries = 1

\* C5's case: scenario D.
C5_Witness ==
    /\ pc = "done"
    /\ script = "reportDuxburyLine"
    /\ text = "Page: 2, Line: 100, Column: 1"
    /\ spoken = <<"Line 100">>
    /\ fgQueries = 0

\* The fixed text of a script.
NotAvailable(name) ==
    CASE name = "reportDuxburyStatus" -> "Status bar not available."
      [] name = "reportDuxburyLine" -> "Line number not available."
      [] name = "reportDuxburyPage" -> "Page number not available."
      [] name = "debugListCandidates" -> "No status candidates found."
      [] name = "debugScanSummary" -> "UI scan did not find status information."

\* No stage gave the script what it needs: the scan ran and the parser did
\* not resolve the script's field (any field, for the scripts that speak all).
NothingResolved ==
    /\ Scanned
    /\ CASE script = "reportDuxburyLine" -> parsed.line = NoneVal
         [] script = "reportDuxburyPage" -> parsed.page = NoneVal
         [] OTHER -> parsed = EmptyOut

\* C7: whatever the collaborators do once the built-in command has failed,
\* each of the five operations returns without an exception and speaks
\* exactly one message, never an empty one; when no stage resolves what the
\* operation needs, the message is the operation's fixed text.
C7_OneMessageNoException ==
    pc = "done" =>
        /\ ~escaped
        /\ ~delegated => Len(spoken) = 1 /\ spoken[1] # ""
        /\ NothingResolved => spoken = <<NotAvailable(script)>>

\* C7's case: the direct accessor raises, the foreground accessor raises.
C7_Witness ==
    /\ pc = "done"
    /\ script = "reportDuxburyPage"
    /\ statusBar[1] = Raises
    /\ foreground = NoForeground
    /\ spoken = <<"Page number not available.">>

\* The script called _get_status_text_api.
HelperCalled == pc = "done" /\ script \in {"reportDuxburyStatus", "reportDuxburyLine", "reportDuxburyPage"} /\ ~delegated

\* C9: one call of _get_status_text_api queries the accessor at most 3
\* times; it returns the normalized text of the first query that gives text
\* with more than white space, and queries no more; a query that raises and
\* one that returns empty or blank text are failed attempts alike; after 3
\* failed attempts it returns absence; no exception reaches the caller.
C9_AtMostThreeQueriesFirstText ==
    HelperCalled =>
        /\ queries <= Retries
        /\ ~escaped
        /\ text # Raises
        /\ LET first == FirstText(statusBar)
           IN  IF first # 0
               THEN queries = first /\ text = Normalize(statusBar[first])
               ELSE queries = Retries /\ text = NoneVal

\* C9's case: a query that raises, a blank one, then a text.
C9_Witness ==
    /\ HelperCalled
    /\ statusBar[1] = Raises
    /\ statusBar[2] = " \t"
    /\ statusBar[3] = "Page 4"
    /\ text = "Page 4"
    /\ queries = 3

PatternsOf(f) ==
    CASE f = "page" -> _PAGE_PATTERNS
      [] f = "line" -> _LINE_PATTERNS
      [] f = "col" -> _COL_PATTERNS

\* The position of a field among the digit runs in positional fallback.
PositionOf(f) == CASE f = "page" -> 1 [] f = "line" -> 2 [] f = "col" -> 3

\* The place in the concatenated text where text number i starts, less one.
RECURSIVE Offset(_, _)
Offset(texts, i) ==
    IF i = 1 THEN 0 ELSE Offset(texts, i - 1) + Len(texts[i - 1][2]) + Len(" | ")

NoRun == [from |-> 0, to |-> 0]

\* The digit run, as a range of the concatenated text, that stage 1 or
\* stage 2 matches as the labelled value of field f, or NoRun.
LabelledRun(texts, f) ==
    LET hits == {i \in 1..Len(texts) : FirstMatch(texts[i][2], PatternsOf(f)) # NoMatch}
        first == CHOOSE i \in hits : \A j \in hits : i <= j
        m1 == FirstMatch(texts[first][2], PatternsOf(f))
        m2 == FirstMatch(Big(texts), PatternsOf(f))
    IN  IF hits # {}
        THEN [from |-> Offset(texts, first) + m1.from, to |-> Offset(texts, first) + m1.to]
        ELSE IF m2 # NoMatch THEN [from |-> m2.from, to |-> m2.to]
        ELSE NoRun

\* Positional fallback gave field f its value.
ByPosition(texts, f) == LabelledRun(texts, f) = NoRun /\ parsed[f] # NoneVal

\* C10: a digit-run occurrence of the candidate text that stage 1 or stage 2
\* matched as the labelled value of one field is never also assigned by
\* positional fallback to a different field: for the candidates "Line 12",
\* "5", "3" the page is not the "12" taken as the line.
C10_LabelledRunNotReused ==
    Scanned =>
        \A f, g \in FieldSet :
            f # g /\ ByPosition(cand, f) /\ LabelledRun(cand, g) # NoRun =>
                DigitRuns(Big(cand), 1)[PositionOf(f)] # LabelledRun(cand, g)

\* C10 as amended: positional fallback gives a field that stages 1 and 2
\* left unresolved the digit run at the field's own position (1st page, 2nd
\* line, 3rd column) of the concatenated text when there are at least 3
\* runs, and nothing otherwise, also when that run was matched as the
\* labelled value of another field; a field that stage 1 or 2 resolved has
\* the run matched for it.
C10_PositionalTakesOwnPosition ==
    Scanned =>
        \A f \in FieldSet :
            LET big == Big(cand)
                run == LabelledRun(cand, f)
                runs == DigitRuns(big, 1)
                own == runs[PositionOf(f)]
            IN  parsed[f] =
                    IF run # NoRun THEN SubSeq(big, run.from, run.to)
                    ELSE IF Len(runs) >= 3 THEN SubSeq(big, own.from, own.to)
                    ELSE NoneVal

\* C10's case: the candidates "Line 12", "5", "3", where the page is the
\* "12" that is the line.
C10_Witness ==
    /\ Scanned
    /\ cand = << <<2, "Line 12">>, <<2, "5">>, <<2, "3">> >>
    /\ LabelledRun(cand, "line") = [from |-> 6, to |-> 7]
    /\ ByPosition(cand, "page")
    /\ parsed = [page |-> "12", line |-> "12", col |-> "3"]

=============================================================================
